---- MODULE Spec2Model ----
(***************************************************************************)
(* A model of src/tagged_arena_allocator.cpp: TaggedArena, its per-tag     *)
(* chains of ArenaBlocks, alloc, free and the destructor.                  *)
(*                                                                         *)
(* The heap is a finite set of addresses.  `new BlockNode` takes the       *)
(* lowest address never used or any address that was deleted before (the   *)
(* system allocator may hand a freed address out again).                   *)
(*                                                                         *)
(* Undefined behaviour.  free never writes the slot, so after free(tag)    *)
(* the slot holds a dangling pointer (the slot is in `dangling`); and a    *)
(* tag at or above COUNT - 1 indexes blocks[] outside the array, where the *)
(* value read is arbitrary.  A call that uses such a pointer takes one of  *)
(* the outcomes a build can produce: it faults (pc = "crashed"); or the    *)
(* pointer happens to reference a live node (the address was handed out    *)
(* again) and the call works on that node; or it references a deleted      *)
(* node, whose contents are indeterminate: block.offset reads as a value   *)
(* that lets the request pass or as one that makes it fail, and a second   *)
(* delete goes unnoticed.  After such a call the program has no defined    *)
(* behaviour and the model stops (pc = "undefined").                       *)
(*                                                                         *)
(* size_t arithmetic is arithmetic modulo WORD.  TLC's integers are 32     *)
(* bits wide, so the word is WordBits wide instead of 64; BLOCK_SIZE keeps *)
(* the value the source gives it and lies well below WORD.                 *)
(***************************************************************************)
EXTENDS Integers, FiniteSets, Sequences, TLC

VARIABLES
    blocks,   \* TaggedArena::blocks: slot index -> head pointer of the chain
    heap,     \* address -> BlockNode {block.offset, next} and its allocation state
    dangling, \* the slots whose head pointer references a node free() deleted
    pc,       \* "run" | "done" (destructor returned) | "crashed" | "undefined"
    calls,    \* the number of calls made on the arena so far
    dfree,    \* TRUE once `delete` was applied to a node that was already deleted
    last      \* the most recent call: its arguments, the slot it indexed, its result

vars == <<blocks, heap, dangling, pc, calls, dfree, last>>

\* ------------------------------------------------------------------ bounds
MaxAddr == 4
MaxTag == 5
MaxCalls == 4
WordBits == 28

\* --------------------------------------------------------------- constants
SHARED == 0
GAME == 1
RENDERING == 2
GPU == 3
COUNT == 4

NULL == 0

WORD == 2 ^ WordBits

BLOCK_SIZE == 8 * 1024 * 1024 * 2

TwoMiB == 2 * 1024 * 1024

NumSlots == COUNT - 1

Slots == 0 .. (NumSlots - 1)

Tags == 0 .. MaxTag

ValidTags == {SHARED, GAME, RENDERING, GPU}

Addr == 1 .. MaxAddr

Ptr == {NULL} \cup Addr

NoIdx == 0 - 1

Sizes == {1, BLOCK_SIZE - 1, BLOCK_SIZE, BLOCK_SIZE + 1}

Aligns == {1, 4}

\* The requests made of one block: sizes and alignments that fill it, misalign
\* it, and make the size_t sum of the capacity test wrap.
BlockSizes == {0, 1, BLOCK_SIZE - 1}

BlockAligns == {1, 4, WORD - 1}

NoBytes == [blk |-> NULL, pos |-> 0]

\* --------------------------------------------------------- ArenaBlock::alloc
\* size_t arithmetic: the sum of two words, modulo WORD.
Add(x, y) == (x + y) % WORD

\* The capacity test with >= in place of >.
BlockAllocStrict(off, size, alignment) ==
    IF Add(Add(size, alignment), off) >= BLOCK_SIZE
    THEN [ok |-> FALSE, pos |-> 0, offset |-> off]
    ELSE [ok |-> TRUE,
          pos |-> Add(off, alignment),
          offset |-> Add(Add(off, alignment), size)]

BlockAlloc(off, size, alignment) ==
    IF Add(Add(size, alignment), off) > BLOCK_SIZE
    THEN [ok |-> FALSE, pos |-> 0, offset |-> off]
    ELSE [ok |-> TRUE,
          pos |-> Add(off, alignment),
          offset |-> Add(Add(off, alignment), size)]

\* ------------------------------------------------------------ chain helpers
\* What pointer p references: nothing, a live node, a deleted node, or memory that
\* never held a node.
StateOf(h, p) == IF p = NULL THEN "null" ELSE h[p].st

RECURSIVE ChainFrom(_, _, _)
\* The nodes reached from pointer p by following next, while they are live.
ChainFrom(h, p, fuel) ==
    IF p = NULL \/ fuel = 0 THEN <<>>
    ELSE IF h[p].st # "live" THEN <<>>
    ELSE <<p>> \o ChainFrom(h, h[p].next, fuel - 1)

Chain(h, b, tag) == IF tag \in DOMAIN b THEN ChainFrom(h, b[tag], MaxAddr) ELSE <<>>

\* ------------------------------------------------------- slot reads / writes
\* this->blocks[static_cast<uint8_t>(tag)]: inside the array the slot's value,
\* outside it whatever the memory behind the array holds.
SlotRead(tag) == IF tag \in DOMAIN blocks THEN {blocks[tag]} ELSE Ptr

SlotWrite(tag, n) == IF tag \in DOMAIN blocks THEN [blocks EXCEPT ![tag] = n] ELSE blocks

SlotIdx(tag) == tag

\* `new BlockNode`: the lowest address never used, or any address deleted before.
NewAddrs ==
    LET unused == {a \in Addr : heap[a].st = "unused"}
    IN  {a \in unused : \A b \in unused : a <= b} \cup {a \in Addr : heap[a].st = "freed"}

\* ----------------------------------------------------------- TaggedArena()
Init ==
    /\ blocks = [i \in Slots |-> i + 1]
    /\ heap = [a \in Addr |->
                 IF a <= NumSlots
                 THEN [st |-> "live", offset |-> 0, next |-> NULL]
                 ELSE [st |-> "unused", offset |-> 0, next |-> NULL]]
    /\ dangling = {}
    /\ pc = "run"
    /\ calls = 0
    /\ dfree = FALSE
    /\ last = [op |-> "init", tag |-> 0, size |-> 0, alignment |-> 0,
               idx |-> NoIdx, ret |-> NoBytes, ctor |-> "none"]

\* A call on this tag reads a pointer it may use: the slot exists and its head
\* was not deleted.
Defined(tag) == tag \in DOMAIN blocks /\ tag \notin dangling

\* --------------------------------------------------------- TaggedArena::alloc
\* The guard without its size test.
AllocRejectsTagOnly(tag, size) == tag = COUNT

AllocRejects(tag, size) == size > BLOCK_SIZE \/ tag = COUNT

AllocCall(tag, size, alignment, idx, ret) ==
    [op |-> "alloc", tag |-> tag, size |-> size, alignment |-> alignment,
     idx |-> idx, ret |-> ret, ctor |-> "none"]

\* alloc<T>: T* data = reinterpret_cast<T*>(this->alloc(tag, sizeof(T), alignment));
\* new(data) T; return data;
\* The placement new runs whatever alloc returned.  On bytes of a block it
\* constructs the value there.  On nullptr the behaviour is undefined: the
\* constructor writes through address 0 and the process faults, or nothing is
\* written (T has no initialisation to do) and nullptr is returned.
Return(typed, call, pcn) ==
    IF ~typed
    THEN last' = call /\ pc' = pcn
    ELSE IF call.ret # NoBytes
    THEN last' = [call EXCEPT !.op = "allocT", !.ctor = "data"] /\ pc' = pcn
    ELSE /\ last' = [call EXCEPT !.op = "allocT", !.ctor = "nullptr"]
         /\ pc' \in {"crashed", "undefined"}

\* A new head that does not link the old head behind it.
GrowNextUnlinked(node) == NULL

\* The new head's next pointer on growth.
GrowNext(node) == node

\* if (!bytes) { node = new BlockNode{...}; bytes = node->block.alloc(...);
\*               this->blocks[tag] = node; }
Grow(tag, size, alignment, node, pcn, typed) ==
    LET r2 == BlockAlloc(0, size, alignment)
    IN  \E n \in NewAddrs :
          /\ heap' = [heap EXCEPT ![n] = [st |-> "live", offset |-> r2.offset,
                                          next |-> GrowNext(node)]]
          /\ blocks' = SlotWrite(tag, n)
          /\ dangling' = dangling \ {tag}
          /\ Return(typed, AllocCall(tag, size, alignment, SlotIdx(tag),
                                      IF r2.ok THEN [blk |-> n, pos |-> r2.pos]
                                      ELSE NoBytes), pcn)
          /\ UNCHANGED dfree

\* The allocation proper, on the live node the slot read gave.
AllocOn(tag, size, alignment, node, pcn, typed) ==
    LET r == BlockAlloc(heap[node].offset, size, alignment)
    IN  IF r.ok
        THEN /\ heap' = [heap EXCEPT ![node].offset = r.offset]
             /\ Return(typed, AllocCall(tag, size, alignment, SlotIdx(tag),
                                         [blk |-> node, pos |-> r.pos]), pcn)
             /\ UNCHANGED <<blocks, dangling, dfree>>
        ELSE Grow(tag, size, alignment, node, pcn, typed)

\* The same on a node that was deleted: block.offset is indeterminate, so the
\* first attempt passes (bytes of the destroyed block are returned) or fails (a
\* new node is linked in front of the dangling one).
AllocStale(tag, size, alignment, node, typed) ==
    \/ /\ Return(typed, AllocCall(tag, size, alignment, SlotIdx(tag),
                                   [blk |-> node, pos |-> alignment]), "undefined")
       /\ UNCHANGED <<blocks, heap, dangling, dfree>>
    \/ Grow(tag, size, alignment, node, "undefined", typed)

AllocFault(tag, size, alignment, typed) ==
    /\ pc' = "crashed"
    /\ last' = [AllocCall(tag, size, alignment, SlotIdx(tag), NoBytes)
                EXCEPT !.op = IF typed THEN "allocT" ELSE "alloc"]
    /\ UNCHANGED <<blocks, heap, dangling, dfree>>

\* The body of alloc; typed tells that the call is the one alloc<T> makes.
AllocBytes(tag, size, alignment, typed) ==
    /\ pc = "run"
    /\ calls < MaxCalls
    /\ calls' = calls + 1
    /\ IF AllocRejects(tag, size)
       THEN /\ Return(typed, AllocCall(tag, size, alignment, NoIdx, NoBytes), pc)
            /\ UNCHANGED <<blocks, heap, dangling, dfree>>
       ELSE IF Defined(tag)
       THEN AllocOn(tag, size, alignment, blocks[tag], pc, typed)
       ELSE \E node \in SlotRead(tag) :
              \/ /\ StateOf(heap, node) = "live"
                 /\ AllocOn(tag, size, alignment, node, "undefined", typed)
              \/ /\ StateOf(heap, node) = "freed"
                 /\ AllocStale(tag, size, alignment, node, typed)
              \/ AllocFault(tag, size, alignment, typed)

Alloc(tag, size, alignment) == AllocBytes(tag, size, alignment, FALSE)

\* template <typename T> T* alloc(tag, alignment = alignof(T))
AllocT(tag, sizeofT, alignment) == AllocBytes(tag, sizeofT, alignment, TRUE)

\* ---------------------------------------------------------- TaggedArena::free
\* delete node: ~ArenaBlock releases the buffer, then the node is released.
Deleted == [st |-> "freed", offset |-> 0, next |-> NULL]

RECURSIVE FreeWalk(_, _, _, _)
\* while (node) { next = node->next; delete node; node = next; }
\* A node that is not live ends the walk: the delete of a deleted node faults
\* (tol = FALSE) or goes unnoticed and the walk stops there (tol = TRUE); a
\* pointer to memory that never held a node faults.
FreeWalk(h, node, fuel, tol) ==
    IF node = NULL \/ fuel = 0 THEN [h |-> h, df |-> FALSE, abort |-> FALSE]
    ELSE IF h[node].st = "live"
    THEN FreeWalk([h EXCEPT ![node] = Deleted], h[node].next, fuel - 1, tol)
    ELSE IF h[node].st = "unused" THEN [h |-> h, df |-> FALSE, abort |-> TRUE]
    ELSE [h |-> h, df |-> TRUE, abort |-> ~tol]

FreeRejects(tag) == tag = COUNT

FreeCall(tag, idx) ==
    [op |-> "free", tag |-> tag, size |-> 0, alignment |-> 0, idx |-> idx,
     ret |-> NoBytes, ctor |-> "none"]

\* The value free leaves in the slot: the code never writes the slot.
FreeSlot(tag, b) == b

Free(tag) ==
    /\ pc = "run"
    /\ calls < MaxCalls
    /\ calls' = calls + 1
    /\ IF FreeRejects(tag)
       THEN /\ last' = FreeCall(tag, NoIdx)
            /\ UNCHANGED <<blocks, heap, dangling, pc, dfree>>
       ELSE \E node \in SlotRead(tag), tol \in BOOLEAN :
              LET w == FreeWalk(heap, node, MaxAddr, tol)
              IN  /\ heap' = w.h
                  /\ dfree' = (dfree \/ w.df)
                  /\ pc' = IF w.abort THEN "crashed"
                           ELSE IF Defined(tag) THEN pc ELSE "undefined"
                  /\ blocks' = FreeSlot(tag, blocks)
                  /\ dangling' = {t \in DOMAIN blocks' :
                                    StateOf(w.h, blocks'[t]) \in {"freed", "unused"}
                                    \/ (t \in dangling /\ blocks'[t] = blocks[t])}
                  /\ last' = FreeCall(tag, SlotIdx(tag))

\* -------------------------------------------------------------- ~TaggedArena
RECURSIVE DestroyFrom(_, _, _)
\* for (i = 0; i < COUNT - 1; i++) this->free(i);
DestroyFrom(h, i, tol) ==
    IF i >= NumSlots THEN [h |-> h, df |-> FALSE, abort |-> FALSE]
    ELSE LET w == FreeWalk(h, blocks[i], MaxAddr, tol)
         IN  IF w.abort THEN w
             ELSE LET r == DestroyFrom(w.h, i + 1, tol)
                  IN  [r EXCEPT !.df = (w.df \/ r.df)]

Destroy ==
    /\ pc = "run"
    /\ calls < MaxCalls
    /\ calls' = calls + 1
    /\ \E tol \in BOOLEAN :
         LET w == DestroyFrom(heap, 0, tol)
         IN  /\ heap' = w.h
             /\ dfree' = (dfree \/ w.df)
             /\ pc' = IF w.abort THEN "crashed"
                      ELSE IF dangling = {} THEN "done" ELSE "undefined"
    /\ last' = [op |-> "destroy", tag |-> 0, size |-> 0, alignment |-> 0,
                idx |-> NumSlots - 1, ret |-> NoBytes, ctor |-> "none"]
    /\ UNCHANGED <<blocks, dangling>>

\* ---------------------------------------------------------------------- Next
AllocStep == \E tag \in Tags, size \in Sizes, alignment \in Aligns : Alloc(tag, size, alignment)

FreeStep == \E tag \in Tags : Free(tag)

Next == AllocStep \/ FreeStep \/ Destroy

Spec == Init /\ [][Next]_vars

\* The arena used through alloc<T>; sizeof(T) ranges over Sizes.
AllocTStep == \E tag \in Tags, sizeofT \in Sizes, alignment \in Aligns : AllocT(tag, sizeofT, alignment)

NextTyped == AllocTStep \/ FreeStep \/ Destroy

SpecTyped == Init /\ [][NextTyped]_vars

\* One chain under a run of requests: ArenaBlock::alloc on its head block and,
\* on growth, on the new block.
BlockStep == \E size \in BlockSizes, alignment \in BlockAligns : Alloc(GAME, size, alignment)

NextBlock == BlockStep

SpecBlock == Init /\ [][NextBlock]_vars

TypeOK ==
    /\ DOMAIN blocks = Slots
    /\ \A i \in Slots : blocks[i] \in Ptr
    /\ \A a \in Addr : heap[a].st \in {"unused", "live", "freed"} /\ heap[a].next \in Ptr
                       /\ heap[a].offset \in 0 .. (WORD - 1)
    /\ dangling \subseteq Slots
    /\ pc \in {"run", "done", "crashed", "undefined"}
    /\ calls \in 0 .. MaxCalls
    /\ dfree \in BOOLEAN

\* ------------------------------------------------------- views used by claims
\* The chain of a tag as the caller sees it: each live block and its offset.
ChainView(h, b, tag) ==
    LET c == Chain(h, b, tag)
    IN  [i \in 1 .. Len(c) |-> <<c[i], h[c[i]].offset>>]

ChainBlocks(h, b, tag) ==
    LET c == Chain(h, b, tag)
    IN  {c[i] : i \in 1 .. Len(c)}

Returned == pc # "crashed"

\* ----------------------------------------------------------------------- C1
\* C1: after free(tag) on a valid tag the tag's chain is empty (the head
\* references no destroyed block), and the next alloc(tag, size, alignment)
\* with size + alignment <= BLOCK_SIZE gives what it gives on a fresh arena:
\* success from a live block, position `alignment`, chain length 1, head offset
\* alignment + size.
C1_FreeThenAllocAsFresh ==
    [][ /\ (last'.op = "free" /\ last'.tag \in ValidTags)
           => /\ Returned'
              /\ last'.tag \in DOMAIN blocks'
              /\ blocks'[last'.tag] = NULL
        /\ (/\ last.op = "free" /\ last.tag \in ValidTags
            /\ last'.op = "alloc" /\ last'.tag = last.tag
            /\ last'.size + last'.alignment <= BLOCK_SIZE)
           => /\ Returned'
              /\ last'.ret.blk # NULL
              /\ heap'[last'.ret.blk].st = "live"
              /\ last'.ret.pos = last'.alignment
              /\ Len(Chain(heap', blocks', last'.tag)) = 1
              /\ blocks'[last'.tag] = last'.ret.blk
              /\ heap'[last'.ret.blk].offset = last'.alignment + last'.size
      ]_vars

\* ----------------------------------------------------------------------- C2
\* C2: free(tag) on a tag whose chain is already empty (no block of it is left
\* alive, as right after free(tag)) returns normally and changes nothing; no
\* block is destroyed a second time.
C2_FreeIdempotent ==
    [][ (/\ last'.op = "free" /\ last'.tag \in ValidTags
         /\ last'.tag \in DOMAIN blocks
         /\ Chain(heap, blocks, last'.tag) = <<>>)
        => /\ Returned'
           /\ heap' = heap
           /\ blocks' = blocks
           /\ dfree' = dfree
      ]_vars

\* ----------------------------------------------------------------------- C3
\* C3: once the arena is destroyed, every block ever created has been released
\* exactly once: the destructor returns, no block is live, none was deleted twice.
C3_EachBlockReleasedOnce ==
    last.op = "destroy" =>
        /\ pc = "done"
        /\ \A a \in Addr : heap[a].st # "live"
        /\ ~dfree

\* ----------------------------------------------------------------------- C4
\* C4: each of SHARED, GAME, RENDERING and GPU has a slot of its own in blocks[],
\* seeded by the constructor with one block at offset 0, and every call for one
\* of these tags that indexes blocks[] indexes a slot that exists.
C4_OneChainPerRealTag ==
    /\ \A t \in ValidTags : t \in DOMAIN blocks
    /\ last.op = "init" =>
         /\ \A t \in ValidTags :
              /\ t \in DOMAIN blocks
              /\ ChainView(heap, blocks, t) = <<(<<blocks[t], 0>>)>>
         /\ \A t, u \in ValidTags \cap DOMAIN blocks : t # u => blocks[t] # blocks[u]
    /\ (last.op \in {"alloc", "free"} /\ last.tag \in ValidTags /\ last.idx # NoIdx)
         => last.idx \in DOMAIN blocks

\* ----------------------------------------------------------------------- C5
\* C5: for distinct valid tags A and B, alloc(A, ...) and free(A) leave B's chain
\* as it was (same blocks, same offsets, none destroyed), and bytes returned for
\* A never lie in a block of B's chain.
C5_TagIsolation ==
    [][ \A A, B \in ValidTags :
          (A # B /\ last'.op \in {"alloc", "free"} /\ last'.tag = A)
          => /\ ChainView(heap', blocks', B) = ChainView(heap, blocks, B)
             /\ last'.ret.blk \notin ChainBlocks(heap', blocks', B)
      ]_vars

\* ----------------------------------------------------------------------- C6
\* C6: alloc(tag, size, alignment) with size > BLOCK_SIZE returns failure for
\* every valid tag and alignment, in every state, without reading a slot,
\* creating a block or changing any chain or offset.
C6_CapacityCeiling ==
    [][ (last'.op = "alloc" /\ last'.tag \in ValidTags /\ last'.size > BLOCK_SIZE)
        => /\ last'.ret = NoBytes
           /\ last'.idx = NoIdx
           /\ pc' = pc
           /\ UNCHANGED <<blocks, heap, dangling, dfree>>
      ]_vars

\* A request above the ceiling was refused on an arena one of whose chains had
\* already grown.
C6_Witness ==
    /\ last.op = "alloc" /\ last.tag \in ValidTags /\ last.size > BLOCK_SIZE
    /\ last.ret = NoBytes
    /\ pc = "run"
    /\ \E t \in Slots : Len(Chain(heap, blocks, t)) = 2

\* ----------------------------------------------------------------------- C7
\* C7: the ceiling is 2 MiB: every alloc with size > 2 * 1024 * 1024 is refused.
C7_CeilingIsTwoMiB ==
    (last.op = "alloc" /\ last.size > TwoMiB) => last.ret = NoBytes

\* ----------------------------------------------------------------------- C8
\* C8: when the head block of a valid tag cannot serve a request with
\* size + alignment <= BLOCK_SIZE, alloc creates exactly one block, makes it the
\* head with the old head directly behind it, serves the request from the new
\* block at position `alignment` and succeeds; the chain is one block longer.
C8_ChainGrowth ==
    [][ \A t \in ValidTags :
          (/\ last'.op = "alloc" /\ last'.tag = t /\ Returned'
           /\ t \in DOMAIN blocks
           /\ StateOf(heap, blocks[t]) = "live"
           /\ last'.size + last'.alignment <= BLOCK_SIZE
           /\ heap[blocks[t]].offset + last'.alignment + last'.size > BLOCK_SIZE)
          => \E n \in Addr :
               /\ heap[n].st # "live"
               /\ heap'[n] = [st |-> "live", offset |-> last'.alignment + last'.size,
                              next |-> blocks[t]]
               /\ \A a \in Addr \ {n} : heap'[a] = heap[a]
               /\ blocks' = [blocks EXCEPT ![t] = n]
               /\ last'.ret = [blk |-> n, pos |-> last'.alignment]
               /\ Len(Chain(heap', blocks', t)) = Len(Chain(heap, blocks, t)) + 1
      ]_vars

\* A chain that grew: the head served the last request at `alignment`, and the
\* block behind it is the exhausted old head.
C8_Witness ==
    /\ last.op = "alloc" /\ last.tag \in Slots /\ pc = "run"
    /\ last.size + last.alignment <= BLOCK_SIZE
    /\ last.alignment = 4
    /\ Len(Chain(heap, blocks, last.tag)) = 2
    /\ last.ret = [blk |-> blocks[last.tag], pos |-> last.alignment]
    /\ heap[blocks[last.tag]].offset = last.alignment + last.size
    /\ heap[heap[blocks[last.tag]].next].offset = BLOCK_SIZE

\* ----------------------------------------------------------------------- C9
\* C9: on a fresh arena alloc(tag, BLOCK_SIZE, 1) succeeds for any valid tag and
\* exactly fills the tag's first block; a following alloc(tag, 1, 1) grows the
\* chain to a second block and succeeds.
C9_FillThenGrow ==
    [][ /\ (/\ last.op = "init"
            /\ last'.op = "alloc" /\ last'.tag \in ValidTags
            /\ last'.size = BLOCK_SIZE /\ last'.alignment = 1)
           => /\ Returned'
              /\ last'.ret.blk # NULL
              /\ ChainView(heap', blocks', last'.tag) = <<(<<last'.ret.blk, BLOCK_SIZE>>)>>
        /\ (/\ calls = 1
            /\ last.op = "alloc" /\ last.tag \in ValidTags
            /\ last.size = BLOCK_SIZE /\ last.alignment = 1
            /\ last'.op = "alloc" /\ last'.tag = last.tag
            /\ last'.size = 1 /\ last'.alignment = 1)
           => /\ Returned'
              /\ last'.ret.blk # NULL
              /\ Len(Chain(heap', blocks', last'.tag)) = 2
              /\ blocks'[last'.tag] = last'.ret.blk
      ]_vars

\* ---------------------------------------------------------------------- C10
\* C10: alloc with an invalid tag (COUNT or any value above it) returns failure
\* for every size and alignment and touches nothing: no slot is read or written,
\* no block is created, no offset changes.
C10_InvalidTagRefused ==
    [][ (last'.op = "alloc" /\ last'.tag >= COUNT)
        => /\ Returned'
           /\ last'.ret = NoBytes
           /\ last'.idx = NoIdx
           /\ UNCHANGED <<blocks, heap, dfree>>
      ]_vars

\* ---------------------------------------------------------------------- C11
\* C11: free with an invalid tag (COUNT or any value above it) is a no-op: no
\* slot is read, no block is destroyed and every chain is left as it was.
C11_InvalidTagFreeIsNoOp ==
    [][ (last'.op = "free" /\ last'.tag >= COUNT)
        => /\ Returned'
           /\ last'.idx = NoIdx
           /\ UNCHANGED <<blocks, heap, dfree>>
      ]_vars

\* ---------------------------------------------------------------------- C12
\* C12: alloc<T> returns a pointer to a default-constructed value or failure.
\* Whenever the raw alloc fails (the tag is COUNT, sizeof(T) > BLOCK_SIZE, or
\* sizeof(T) + alignment > BLOCK_SIZE) alloc<T> returns failure and constructs
\* nothing at the null address.
C12_TypedAllocFailsCleanly ==
    [][ (/\ last'.op = "allocT"
         /\ last'.tag \in DOMAIN blocks \cup {COUNT}
         /\ \/ last'.tag = COUNT
            \/ last'.size > BLOCK_SIZE
            \/ last'.size + last'.alignment > BLOCK_SIZE)
        => /\ Returned'
           /\ last'.ret = NoBytes
           /\ last'.ctor # "nullptr"
      ]_vars

\* ---------------------------------------------------------------------- C13
\* C13: a block is destroyed only by free of its owning tag or by teardown.
\* No alloc call, growth included, destroys or unlinks a block that exists, and
\* a free(tag) call destroys no block that sits on the chain of another tag
\* whose head pointer is valid; so bytes returned under a tag stay inside a
\* live block until free(tag) or teardown.
C13_DestroyedOnlyByOwnerFree ==
    [][ /\ (last'.op = "alloc")
           => /\ \A a \in Addr : heap[a].st = "live"
                    => heap'[a].st = "live" /\ heap'[a].next = heap[a].next
              /\ \A t \in DOMAIN blocks :
                    ChainBlocks(heap, blocks, t) \subseteq ChainBlocks(heap', blocks', t)
        /\ (last'.op = "free" /\ last'.tag \in DOMAIN blocks)
           => \A t \in DOMAIN blocks \ (dangling \cup {last'.tag}) :
                 \A a \in ChainBlocks(heap, blocks, t) : heap'[a].st = "live"
      ]_vars

C15_WrappedSumFails ==
    [][ /\ \A a \in Addr : heap'[a].st = "live" => heap'[a].offset \in 0 .. BLOCK_SIZE
        /\ (/\ last'.op = "alloc"
            /\ last'.tag \in DOMAIN blocks \ dangling
            /\ heap[blocks[last'.tag]].offset + last'.alignment + last'.size >= WORD)
           => last'.ret = NoBytes
      ]_vars

\* ---------------------------------------------------------------------- C16
\* C16: bump monotonicity.  The successful allocations on one block (any size
\* >= 0, any alignment >= 1) have strictly increasing positions, each range
\* [pos, pos + size) lies within the block's buffer 0 .. BLOCK_SIZE, and it is
\* disjoint from the ranges returned from that block before: it starts at or
\* after the block's offset, where the earlier ranges end.
C16_BumpMonotone ==
    [][ (/\ last'.op = "alloc"
         /\ last'.tag \in DOMAIN blocks \ dangling
         /\ last'.ret # NoBytes)
        => /\ last'.ret.pos + last'.size <= BLOCK_SIZE
           /\ heap[last'.ret.blk].st = "live"
              => last'.ret.pos >= heap[last'.ret.blk].offset
           /\ (last.op = "alloc" /\ last.ret.blk = last'.ret.blk)
              => /\ last'.ret.pos > last.ret.pos
                 /\ last'.ret.pos >= last.ret.pos + last.size
      ]_vars

\* ---------------------------------------------------------------------- C17
\* C17: only the head of a chain receives allocations.  In every alloc step the
\* offset of every block that is on a chain behind its head stays as it was, so
\* a block that stopped being the head keeps its offset until its chain is torn
\* down.  The chains are those of the tags whose head pointer is valid.
C17_OnlyHeadBumps ==
    [][ (last'.op = "alloc" /\ last'.tag \in DOMAIN blocks)
        => \A t \in DOMAIN blocks \ dangling :
              \A i \in 2 .. Len(Chain(heap, blocks, t)) :
                 LET a == Chain(heap, blocks, t)[i]
                 IN  heap'[a].st = "live" /\ heap'[a].offset = heap[a].offset
      ]_vars

\* ---------------------------------------------------------------------- C18
\* C18: allocations are aligned.  For a requested alignment that is a power of
\* two the position returned is a multiple of that alignment, whatever the
\* sizes and alignments of the allocations made before.
C18_PositionsAligned ==
    [][ (/\ last'.op = "alloc"
         /\ last'.tag \in DOMAIN blocks \ dangling
         /\ last'.ret # NoBytes
         /\ \E k \in 0 .. WordBits - 1 : last'.alignment = 2 ^ k)
        => last'.ret.pos % last'.alignment = 0
      ]_vars

\* ---------------------------------------------------------------------- C19
\* C19: an alloc call that returns failure leaves the arena as it was.  In
\* particular a request with size <= BLOCK_SIZE and size + alignment >
\* BLOCK_SIZE returns failure without adding a block, so repeating it never
\* grows the chain.
C19_FailureLeavesArenaUnchanged ==
    [][ (/\ last'.op = "alloc"
         /\ last'.tag \in (DOMAIN blocks \ dangling) \cup {COUNT}
         /\ last'.ret = NoBytes)
        => UNCHANGED <<blocks, heap>>
      ]_vars

====
